---- MODULE Spec2Model ----
(***************************************************************************)
(* Premium Pilot bot (src/bot.py): the JSON position store, the handlers   *)
(* that mutate it, and the streaming price client.                         *)
(*                                                                         *)
(* Strings that the code transforms (tickers, symbols) are sequences of    *)
(* one-character strings, so that strip/upper/concatenation are computed.  *)
(* Money is in integer cents; percentages are in hundredths of a percent.  *)
(***************************************************************************)
EXTENDS Integers, Sequences, FiniteSets, TLC

VARIABLES
    file,          \* content of DATA_FILE (positions.json)
    tmp,           \* content of positions.json.tmp
    last,          \* the last handler call and what it returned
    issued,        \* history: per user, the largest id an add has returned so far
    _RESUB_REQUESTED,
    resubs,        \* history: calls of request_ws_resub() since the event was last cleared
    _SUBS,
    PRICE_CACHE,
    _WS_TASK,      \* "none" | "running"
    wsLive,        \* number of ws_loop tasks that were created and have not finished
    startCalls,    \* history: calls of ensure_ws_task so far
    fails,         \* history: failures of ws_loop since it last connected
    slept,         \* seconds of the asyncio.sleep ws_loop is in, 0 when it is in none
    wsPc,          \* position of ws_loop
    want,          \* local of refresh_ws_subscriptions
    to_del,        \* local of refresh_ws_subscriptions
    sent,          \* messages sent on the current connection, in order
    fnIn,          \* the argument of the pure function a specification applies
    fnOut          \* its result

storeVars == <<file, tmp, last, issued>>
sigVars == <<_RESUB_REQUESTED, resubs>>
taskVars == <<_WS_TASK, wsLive, startCalls>>
wsVars == <<_SUBS, PRICE_CACHE, taskVars, fails, slept, wsPc, want, to_del, sent>>
evalVars == <<fnIn, fnOut>>
vars == <<file, tmp, last, issued, _RESUB_REQUESTED, resubs, _SUBS, PRICE_CACHE, _WS_TASK,
          wsLive, startCalls, fails, slept, wsPc, want, to_del, sent, fnIn, fnOut>>

-----------------------------------------------------------------------------
(* Bounds of the model *)

MaxId == 2          \* add is not taken once the id it would allocate exceeds this
MaxPositions == 2   \* add is not taken once the store holds this many entries
MaxClosed == 1      \* close is not taken once the bucket's closed list is this long
MaxResubs == 2      \* resubs counts up to this: it stands for this many calls or more
MaxStarts == 2      \* ensure_ws_task is not called more often than this
MaxFails == 2       \* ws_loop does not fail more often than this without connecting in between
MaxN == 3           \* the largest limit user_closed is called with

UIDS == {"u1", "u2"}
PIDS == 1..(MaxId + 1)
Times == {10}
Cents == {66}
ClosePrices == {7}

-----------------------------------------------------------------------------
(* Optional values: Python's None *)

None == [has |-> FALSE, v |-> 0]
Some(x) == [has |-> TRUE, v |-> x]

-----------------------------------------------------------------------------
(* Strings as character sequences *)

UpperChar(c) ==
    CASE c = "a" -> "A"
      [] c = "b" -> "B"
      [] c = "u" -> "U"
      [] c = "s" -> "S"
      [] OTHER -> c

upper(s) == [i \in 1..Len(s) |-> UpperChar(s[i])]

RECURSIVE lstrip(_)
lstrip(s) == IF s # <<>> /\ Head(s) = " " THEN lstrip(Tail(s)) ELSE s

RECURSIVE rstrip(_)
rstrip(s) ==
    IF s # <<>> /\ s[Len(s)] = " " THEN rstrip(SubSeq(s, 1, Len(s) - 1)) ELSE s

strip(s) == rstrip(lstrip(s))

_norm_us(s) == upper(strip(s)) \o <<".", "U", "S">>

symbol_variants(s) ==
    LET t == upper(strip(s))
    IN <<t, t \o <<".", "U", "S">>, <<"U", "S", ".">> \o t>>

TickerInputs == {<<"a">>, <<"B">>}
StoreTickers == {<<"a">>}

-----------------------------------------------------------------------------
(* Dates *)

DateFormats == {"%Y-%m-%d", "%m-%d-%Y", "%m/%d/%Y", "%Y/%m/%d"}

DaysInMonth(y, m) ==
    IF m \in {4, 6, 9, 11} THEN 30
    ELSE IF m = 2 THEN (IF y % 4 = 0 /\ (y % 100 # 0 \/ y % 400 = 0) THEN 29 ELSE 28)
    ELSE 31

ValidDate(y, m, d) == m \in 1..12 /\ d \in 1..DaysInMonth(y, m)

\* An expiry argument is text in one of the accepted layouts, an ISO datetime
\* ("iso", accepted by the fromisoformat fallback), or text that is no date.
parse_exp_str(e) ==
    IF e.fmt \in DateFormats \cup {"iso"} /\ ValidDate(e.y, e.m, e.d)
    THEN [ok |-> TRUE, y |-> e.y, m |-> e.m, d |-> e.d]
    ELSE [ok |-> FALSE, y |-> 0, m |-> 0, d |-> 0]

iso_exp_str(e) ==
    LET p == parse_exp_str(e) IN [ok |-> p.ok, s |-> [y |-> p.y, m |-> p.m, d |-> p.d]]

ExpInputs ==
    { [fmt |-> "%m-%d-%Y", y |-> 2025, m |-> 11, d |-> 15],
      [fmt |-> "%Y-%m-%d", y |-> 2025, m |-> 2, d |-> 30] }

-----------------------------------------------------------------------------
(* JSON persistence *)

EmptyUsers == [u \in {} |-> 0]
EmptyBucket == [cc |-> <<>>, csp |-> <<>>, closed |-> <<>>]

\* What a file can hold: nothing at all ("missing"), zero bytes ("empty"), bytes
\* that are not JSON, such as a prefix of a document ("garbage"), JSON that is
\* not an object ("nonobject"), an object without "users" ("legacy"), or a
\* document with "users".
FileOther(k) == [kind |-> k, users |-> EmptyUsers, cc |-> <<>>, closed |-> <<>>]
FileLegacy(cc, closed) == [kind |-> "legacy", users |-> EmptyUsers, cc |-> cc, closed |-> closed]
FileDoc(users) == [kind |-> "users", users |-> users, cc |-> <<>>, closed |-> <<>>]

\* the exception the body of the try in _load raises, "none" when it returns
LoadError(f) ==
    CASE f.kind = "missing"   -> "FileNotFoundError"   \* open
      [] f.kind = "empty"     -> "ValueError"          \* raise ValueError("empty")
      [] f.kind = "garbage"   -> "JSONDecodeError"     \* json.loads
      [] f.kind = "nonobject" -> "ValueError"          \* raise ValueError("bad schema")
      [] OTHER                -> "none"

\* what "except Exception" catches of these
ExceptionClasses == {"FileNotFoundError", "ValueError", "JSONDecodeError"}

\* a mutant of _load_raises: _load without its except clause
_load_uncaught(f) == LoadError(f) # "none"

\* whether a call of _load raises to its caller
_load_raises(f) == LoadError(f) # "none" /\ LoadError(f) \notin ExceptionClasses

\* the "users" of the document _load returns
_load(f) ==
    IF LoadError(f) # "none" THEN EmptyUsers
    ELSE IF f.kind = "legacy"
    THEN [u \in {"legacy"} |-> [cc |-> f.cc, csp |-> <<>>, closed |-> f.closed]]
    ELSE f.users

\* a mutant of _save: writes DATA_FILE in place
_save_in_place(f, t, d, phase) ==
    CASE phase = "opened"  -> [file |-> FileOther("empty"), tmp |-> t]
      [] phase = "partial" -> [file |-> FileOther("garbage"), tmp |-> t]
      [] OTHER             -> [file |-> FileDoc(d), tmp |-> t]

\* _save writes the temporary file and renames it over DATA_FILE; the states in
\* between are the ones a process that dies inside _save leaves behind.
_save(f, t, d, phase) ==
    CASE phase = "opened"  -> [file |-> f, tmp |-> FileOther("empty")]
      [] phase = "partial" -> [file |-> f, tmp |-> FileOther("garbage")]
      [] phase = "written" -> [file |-> f, tmp |-> FileDoc(d)]
      [] OTHER             -> [file |-> FileDoc(d), tmp |-> FileOther("missing")]

SavePhases == {"opened", "partial", "written", "replaced"}

\* a mutant of _ensure_user: the legacy bucket is copied, not popped
_ensure_user_copies(f, uid) ==
    LET d == _load(f)
    IN IF uid \notin DOMAIN d
       THEN [u \in DOMAIN d \cup {uid} |->
                IF u = uid THEN (IF "legacy" \in DOMAIN d THEN d["legacy"] ELSE EmptyBucket)
                ELSE d[u]]
       ELSE d

_ensure_user(f, uid) ==
    LET d == _load(f)
    IN IF uid \notin DOMAIN d
       THEN IF "legacy" \in DOMAIN d
            THEN [u \in (DOMAIN d \ {"legacy"}) \cup {uid} |->
                     IF u = uid THEN d["legacy"] ELSE d[u]]
            ELSE [u \in DOMAIN d \cup {uid} |-> IF u = uid THEN EmptyBucket ELSE d[u]]
       ELSE d

\* _get_user_bucket returns (d, d["users"][uid]); the bucket is d[uid] here.
_get_user_bucket(f, uid) == _ensure_user(f, uid)

-----------------------------------------------------------------------------
(* Positions *)

MaxOf(S) == IF S = {} THEN 0 ELSE LET x == CHOOSE y \in S : \A z \in S : z <= y IN x

Ids(seq) == {seq[i].id : i \in 1..Len(seq)}

\* max([p["id"] for p in seq], default=0)
MaxId0(seq) == MaxOf(Ids(seq))

_compute_next_id(bucket) ==
    MaxOf(Ids(bucket.cc) \cup Ids(bucket.csp) \cup Ids(bucket.closed)) + 1

NewPosition(id, t, s, c, exp, cr, now) ==
    [id |-> id, ticker |-> upper(t), strike |-> s, contracts |-> c, expiry |-> exp,
     entry_credit |-> cr, created_at |-> now]

\* the fields of an open position (a closed one carries the same and three more)
PosFields(p) ==
    [id |-> p.id, ticker |-> p.ticker, strike |-> p.strike, contracts |-> p.contracts,
     expiry |-> p.expiry, entry_credit |-> p.entry_credit, created_at |-> p.created_at]

\* a mutant of WithBucket: the bucket is written to every user
WithBucket_all(d, uid, b) == [u \in DOMAIN d |-> b]

WithBucket(d, uid, b) == [d EXCEPT ![uid] = b]

\* the index of the first element of seq whose id is pid, 0 when there is none
IndexOfId(seq, pid) ==
    IF \E i \in 1..Len(seq) : seq[i].id = pid
    THEN CHOOSE i \in 1..Len(seq) : seq[i].id = pid /\ \A j \in 1..(i - 1) : seq[j].id # pid
    ELSE 0

RemoveAt(seq, i) == SubSeq(seq, 1, i - 1) \o SubSeq(seq, i + 1, Len(seq))

SelectSeqId(seq, pid) == SelectSeq(seq, LAMBDA p : p.id # pid)

\* A run of a handler: the documents it passes to _save, in order, what it
\* returns, whether it raised, and whether it reached request_ws_resub().
Run(saves, ok, id, raised, resub) ==
    [saves |-> saves, ok |-> ok, id |-> id, raised |-> raised, resub |-> resub]

add_pos(f, uid, t, s, c, e, cr, now) ==
    LET d == _get_user_bucket(f, uid)
        bucket == d[uid]
        next_id == MaxId0(bucket.cc) + 1
        exp == iso_exp_str(e)
    IN IF ~exp.ok THEN Run(<<d>>, FALSE, 0, TRUE, FALSE)
       ELSE Run(<<d, WithBucket(d, uid,
                     [bucket EXCEPT !.cc = Append(@, NewPosition(next_id, t, s, c, exp.s, cr, now))])>>,
                TRUE, next_id, FALSE, TRUE)

add_csp(f, uid, t, s, c, e, cr, now) ==
    LET d == _get_user_bucket(f, uid)
        bucket == d[uid]
        next_id == MaxId0(bucket.csp) + 1
        exp == iso_exp_str(e)
    IN IF ~exp.ok THEN Run(<<d>>, FALSE, 0, TRUE, FALSE)
       ELSE Run(<<d, WithBucket(d, uid,
                     [bucket EXCEPT !.csp = Append(@, NewPosition(next_id, t, s, c, exp.s, cr, now))])>>,
                TRUE, next_id, FALSE, TRUE)

\* a mutant of rm_pos: the id is removed from the puts as well
rm_pos_any_kind(f, uid, pid) ==
    LET d == _get_user_bucket(f, uid)
        bucket == d[uid]
        before == Len(bucket.cc)
        cc2 == SelectSeqId(bucket.cc, pid)
    IN Run(<<d, WithBucket(d, uid, [bucket EXCEPT !.cc = cc2, !.csp = SelectSeqId(@, pid)])>>,
           Len(cc2) < before, 0, FALSE, TRUE)

\* a mutant of rm_pos: the removed position is moved to closed
rm_pos_archives(f, uid, pid) ==
    LET d == _get_user_bucket(f, uid)
        bucket == d[uid]
        before == Len(bucket.cc)
        cc2 == SelectSeqId(bucket.cc, pid)
        gone == SelectSeq(bucket.cc, LAMBDA p : p.id = pid)
    IN Run(<<d, WithBucket(d, uid, [bucket EXCEPT !.cc = cc2, !.closed = @ \o gone])>>,
           Len(cc2) < before, 0, FALSE, TRUE)

rm_pos(f, uid, pid) ==
    LET d == _get_user_bucket(f, uid)
        bucket == d[uid]
        before == Len(bucket.cc)
        cc2 == SelectSeqId(bucket.cc, pid)
    IN Run(<<d, WithBucket(d, uid, [bucket EXCEPT !.cc = cc2])>>,
           Len(cc2) < before, 0, FALSE, TRUE)

\* _find_pos loads (and saves) the document again and returns a position of
\* that second document: [d |-> the document it loaded, idx |-> index in cc or 0]
_find_pos(f, uid, pid) ==
    LET d == _get_user_bucket(f, uid)
    IN [d |-> d, idx |-> IndexOfId(d[uid].cc, pid)]

\* An absent keyword argument of edit_pos is None.
ApplyEdit(p, flds) ==
    [p EXCEPT !.ticker = IF flds.ticker.has THEN upper(flds.ticker.v) ELSE @,
              !.strike = IF flds.strike.has THEN flds.strike.v ELSE @,
              !.contracts = IF flds.contracts.has THEN flds.contracts.v ELSE @,
              !.expiry = IF flds.expiry.has THEN iso_exp_str(flds.expiry.v).s ELSE @,
              !.entry_credit = IF flds.credit.has THEN flds.credit.v ELSE @]

\* Lines 272-276 assign to p, a position of the document _find_pos loaded: this
\* is that second document after the assignments.
edit_pos_edited(f, uid, pid, flds) ==
    LET d == _get_user_bucket(f, uid)
        found == _find_pos(FileDoc(d), uid, pid)
    IN WithBucket(found.d, uid, [found.d[uid] EXCEPT !.cc[found.idx] = ApplyEdit(@, flds)])

\* The edited document is dropped: _save(d) writes d, the document edit_pos
\* loaded itself, in which nothing was assigned.
edit_pos(f, uid, pid, flds) ==
    LET d == _get_user_bucket(f, uid)
        found == _find_pos(FileDoc(d), uid, pid)
    IN IF found.idx = 0 THEN Run(<<d, found.d>>, FALSE, 0, FALSE, FALSE)
       ELSE IF flds.expiry.has /\ ~iso_exp_str(flds.expiry.v).ok
       THEN Run(<<d, found.d>>, FALSE, 0, TRUE, FALSE)
       ELSE Run(<<d, found.d, d>>, TRUE, 0, FALSE, TRUE)

\* round(x, 2) of x = num / den * 100, in hundredths of a percent (half to even)
RoundDiv(n, m) ==
    LET q == n \div m
        r == n % m
    IN IF 2 * r > m \/ (2 * r = m /\ q % 2 = 1) THEN q + 1 ELSE q

\* a mutant of pnl_pct_of: rounds to a whole percent
pnl_pct_whole(entry_credit, btc_price) ==
    IF ~btc_price.has \/ entry_credit = 0 THEN None
    ELSE Some(100 * RoundDiv((entry_credit - btc_price.v) * 100, entry_credit))

pnl_pct_of(entry_credit, btc_price) ==
    IF ~btc_price.has \/ entry_credit = 0 THEN None
    ELSE Some(RoundDiv((entry_credit - btc_price.v) * 10000, entry_credit))

Archived(p, now, btc_price) ==
    [k \in DOMAIN p \cup {"closed_at", "btc_price", "pnl_pct"} |->
        CASE k = "closed_at" -> Some(now)
          [] k = "btc_price" -> btc_price
          [] k = "pnl_pct"   -> pnl_pct_of(p.entry_credit, btc_price)
          [] OTHER           -> p[k]]

\* a mutant of close_pos: an id that is not found closes the last position
close_pos_default_last(f, uid, pid, btc_price, now) ==
    LET d == _get_user_bucket(f, uid)
        bucket == d[uid]
        found == IndexOfId(bucket.cc, pid)
        idx == IF found = 0 THEN Len(bucket.cc) ELSE found
    IN IF idx = 0 THEN Run(<<d>>, FALSE, 0, FALSE, FALSE)
       ELSE Run(<<d, WithBucket(d, uid,
                     [bucket EXCEPT !.cc = RemoveAt(@, idx),
                                    !.closed = Append(@, Archived(bucket.cc[idx], now, btc_price))])>>,
                TRUE, 0, FALSE, TRUE)

\* a mutant of close_pos: archives the position and leaves it open
close_pos_keeps_open(f, uid, pid, btc_price, now) ==
    LET d == _get_user_bucket(f, uid)
        bucket == d[uid]
        idx == IndexOfId(bucket.cc, pid)
    IN IF idx = 0 THEN Run(<<d>>, FALSE, 0, FALSE, FALSE)
       ELSE Run(<<d, WithBucket(d, uid,
                     [bucket EXCEPT !.closed = Append(@, Archived(bucket.cc[idx], now, btc_price))])>>,
                TRUE, 0, FALSE, TRUE)

\* a mutant of close_pos: the archived position is put in front of closed
close_pos_prepends(f, uid, pid, btc_price, now) ==
    LET d == _get_user_bucket(f, uid)
        bucket == d[uid]
        idx == IndexOfId(bucket.cc, pid)
    IN IF idx = 0 THEN Run(<<d>>, FALSE, 0, FALSE, FALSE)
       ELSE Run(<<d, WithBucket(d, uid,
                     [bucket EXCEPT !.cc = RemoveAt(@, idx),
                                    !.closed = <<Archived(bucket.cc[idx], now, btc_price)>> \o @])>>,
                TRUE, 0, FALSE, TRUE)

close_pos(f, uid, pid, btc_price, now) ==
    LET d == _get_user_bucket(f, uid)
        bucket == d[uid]
        idx == IndexOfId(bucket.cc, pid)
    IN IF idx = 0 THEN Run(<<d>>, FALSE, 0, FALSE, FALSE)
       ELSE Run(<<d, WithBucket(d, uid,
                     [bucket EXCEPT !.cc = RemoveAt(@, idx),
                                    !.closed = Append(@, Archived(bucket.cc[idx], now, btc_price))])>>,
                TRUE, 0, FALSE, TRUE)

positions(f, uid) == Run(<<_get_user_bucket(f, uid)>>, TRUE, 0, FALSE, FALSE)

-----------------------------------------------------------------------------
(* Inputs *)

Strikes == {3000}
Contracts == {2}
GoodExp == [fmt |-> "%Y-%m-%d", y |-> 2025, m |-> 11, d |-> 15]

EditInputs ==
    { [ticker |-> Some(<<"b">>), strike |-> None, contracts |-> None, credit |-> None,
       expiry |-> None],
      [ticker |-> None, strike |-> None, contracts |-> Some(5), credit |-> None,
       expiry |-> Some([fmt |-> "%m/%d/%Y", y |-> 2025, m |-> 12, d |-> 20])],
      [ticker |-> None, strike |-> None, contracts |-> None, credit |-> None,
       expiry |-> Some([fmt |-> "text", y |-> 0, m |-> 0, d |-> 0])] }

\* the document a legacy file of an older version holds
LegacyPosition == NewPosition(1, <<"A">>, 3000, 2, iso_exp_str(GoodExp).s, 66, 10)
LegacyFile == FileLegacy(<<LegacyPosition>>, <<>>)

InitFiles ==
    { FileOther("missing"), FileOther("empty"), FileOther("garbage"),
      FileOther("nonobject"), FileDoc(EmptyUsers), LegacyFile }

-----------------------------------------------------------------------------------------------------------------------------------------------------
(* The state after start-up *)

NoCall == [op |-> "none", ok |-> FALSE, raised |-> FALSE]

\* everything but the file and the function arguments
StartUp ==
    /\ tmp = FileOther("missing")
    /\ last = NoCall
    /\ issued = [u \in UIDS |-> 0]
    /\ _RESUB_REQUESTED = FALSE
    /\ resubs = 0
    /\ _SUBS = {}
    /\ PRICE_CACHE = [k \in {} |-> 0]
    /\ _WS_TASK = "none"
    /\ wsLive = 0
    /\ startCalls = 0
    /\ fails = 0
    /\ slept = 0
    /\ wsPc = "idle"
    /\ want = {}
    /\ to_del = {}
    /\ sent = <<>>

Init ==
    /\ file \in InitFiles
    /\ StartUp
    /\ fnIn = <<>>
    /\ fnOut = <<>>

-----------------------------------------------------------------------------
(* Handler calls.  U is the set of users that call, T the tickers they enter. *)

RECURSIVE SaveAll(_, _, _)
SaveAll(f, t, saves) ==
    IF saves = <<>> THEN [file |-> f, tmp |-> t]
    ELSE LET r == _save(f, t, Head(saves), "replaced")
         IN SaveAll(r.file, r.tmp, Tail(saves))

OpenCount(d) ==
    LET RECURSIVE Sum(_)
        Sum(S) == IF S = {} THEN 0
                  ELSE LET u == CHOOSE x \in S : TRUE
                       IN Len(d[u].cc) + Len(d[u].csp) + Sum(S \ {u})
    IN Sum(DOMAIN d)

\* the handler returns (or raises to its caller) after all its saves
Complete(run, op) ==
    LET r == SaveAll(file, tmp, run.saves)
    IN /\ file' = r.file
       /\ tmp' = r.tmp
       /\ last' = [op |-> op, ok |-> run.ok, raised |-> run.raised]
       /\ _RESUB_REQUESTED' = (_RESUB_REQUESTED \/ run.resub)
       /\ resubs' = IF run.resub /\ resubs < MaxResubs THEN resubs + 1 ELSE resubs
       /\ UNCHANGED <<wsVars, evalVars>>

Issue(uid, run) ==
    IF run.ok /\ run.id > issued[uid] THEN [issued EXCEPT ![uid] = run.id] ELSE issued

CanAdd(run) == run.id <= MaxId /\ OpenCount(_load(file)) < MaxPositions
CanClose(uid) == Len(_ensure_user(file, uid)[uid].closed) < MaxClosed
BtcInputs == {None} \cup {Some(x) : x \in ClosePrices}

\* H says whether the call is recorded in the history variable issued.
call_add_pos(U, T, H) ==
    \E uid \in U, t \in T, s \in Strikes, c \in Contracts,
       e \in ExpInputs, cr \in Cents, now \in Times :
       LET run == add_pos(file, uid, t, s, c, e, cr, now)
       IN /\ CanAdd(run)
          /\ Complete(run, "add_pos")
          /\ issued' = IF H THEN Issue(uid, run) ELSE issued

call_add_csp(U, T, H) ==
    \E uid \in U, t \in T, s \in Strikes, c \in Contracts,
       e \in ExpInputs, cr \in Cents, now \in Times :
       LET run == add_csp(file, uid, t, s, c, e, cr, now)
       IN /\ CanAdd(run)
          /\ Complete(run, "add_csp")
          /\ issued' = IF H THEN Issue(uid, run) ELSE issued

call_rm_pos(U) ==
    /\ \E uid \in U, pid \in PIDS : Complete(rm_pos(file, uid, pid), "rm_pos")
    /\ UNCHANGED issued

call_edit_pos(U) ==
    /\ \E uid \in U, pid \in PIDS, flds \in EditInputs :
          Complete(edit_pos(file, uid, pid, flds), "edit_pos")
    /\ UNCHANGED issued

call_close_pos(U) ==
    /\ \E uid \in U, pid \in PIDS, btc \in BtcInputs, now \in Times :
          CanClose(uid) /\ Complete(close_pos(file, uid, pid, btc, now), "close_pos")
    /\ UNCHANGED issued

call_positions(U) ==
    /\ \E uid \in U : Complete(positions(file, uid), "positions")
    /\ UNCHANGED issued

\* The process dies inside the k-th _save of a handler, at one of its phases,
\* and is started again: its memory is that of a fresh process, the files are
\* as the dying process left them.
DiesIn(run) ==
    \E k \in 1..Len(run.saves), phase \in SavePhases :
        LET st == SaveAll(file, tmp, SubSeq(run.saves, 1, k - 1))
            r == _save(st.file, st.tmp, run.saves[k], phase)
        IN /\ file' = r.file
           /\ tmp' = r.tmp
           /\ last' = [NoCall EXCEPT !.op = "died"]
           /\ UNCHANGED <<issued, evalVars>>
           /\ _RESUB_REQUESTED' = FALSE
           /\ resubs' = 0
           /\ _SUBS' = {}
           /\ PRICE_CACHE' = [k2 \in {} |-> 0]
           /\ _WS_TASK' = "none"
           /\ wsLive' = 0
           /\ startCalls' = 0
           /\ fails' = 0
           /\ slept' = 0
           /\ wsPc' = "idle"
           /\ want' = {}
           /\ to_del' = {}
           /\ sent' = <<>>

die_in_save(U, T) ==
    \E uid \in U, t \in T, s \in Strikes, c \in Contracts,
       e \in ExpInputs, cr \in Cents, now \in Times :
       LET run == add_pos(file, uid, t, s, c, e, cr, now)
       IN CanAdd(run) /\ DiesIn(run)

StoreNext ==
    \/ call_add_pos(UIDS, StoreTickers, FALSE)
    \/ call_add_csp(UIDS, StoreTickers, FALSE)
    \/ call_rm_pos(UIDS)
    \/ call_edit_pos(UIDS)
    \/ call_close_pos(UIDS)
    \/ call_positions(UIDS)
    \/ die_in_save(UIDS, StoreTickers)

StoreSpec == Init /\ [][StoreNext]_vars

\* The store handlers that allocate or free ids, with the ids add returned recorded.
IdNext ==
    \/ call_add_pos(UIDS, StoreTickers, TRUE)
    \/ call_add_csp(UIDS, StoreTickers, TRUE)
    \/ call_rm_pos(UIDS)
    \/ call_close_pos(UIDS)

IdSpec == Init /\ [][IdNext]_vars

-----------------------------------------------------------------------------
(* The streaming client *)

\* a mutant of all_symbols_in_positions: the cash-secured puts are wanted too
all_symbols_with_csp(f) ==
    LET d == _load(f)
    IN UNION {{_norm_us(d[u].cc[i].ticker) : i \in 1..Len(d[u].cc)}
                 \cup {_norm_us(d[u].csp[i].ticker) : i \in 1..Len(d[u].csp)} : u \in DOMAIN d}

all_symbols_in_positions(f) ==
    LET d == _load(f)
        syms == UNION {{_norm_us(d[u].cc[i].ticker) : i \in 1..Len(d[u].cc)} : u \in DOMAIN d}
    IN {sym \in syms : sym # <<>>}

\* JSON values of a stream message
JNull == [t |-> "null", n |-> 0, s |-> <<>>]
JNum(x) == [t |-> "num", n |-> x, s |-> <<>>]
JStr(x) == [t |-> "str", n |-> 0, s |-> x]

Truthy(v) == (v.t = "num" /\ v.n # 0) \/ (v.t = "str" /\ v.s # <<>>)
Or(a, b) == IF Truthy(a) THEN a ELSE b

\* a message: text that json.loads rejects, or an object with these keys
\* (an absent key reads as null)
Msg(s, code, symbol, p, close) ==
    [parsable |-> TRUE, s |-> s, code |-> code, symbol |-> symbol, p |-> p, close |-> close]
BadMsg == [Msg(JNull, JNull, JNull, JNull, JNull) EXCEPT !.parsable = FALSE]

Msgs ==
    { Msg(JStr(<<"A", ".", "U", "S">>), JNull, JNull, JNum(101), JNull),
      Msg(JNull, JStr(<<"A", ".", "U", "S">>), JNull, JNull, JNum(102)),
      Msg(JStr(<<"A", ".", "U", "S">>), JNull, JNull, JStr(<<"1">>), JNull),
      BadMsg }

\* the price cache after the body of the receive loop has handled msg
on_message(cache, msg) ==
    IF ~msg.parsable THEN cache
    ELSE LET sym == Or(Or(msg.s, msg.code), msg.symbol)
             px == Or(msg.p, msg.close)
         IN IF Truthy(sym) /\ px.t = "num"
            THEN [k \in DOMAIN cache \cup {sym.s} |-> IF k = sym.s THEN px.n ELSE cache[k]]
            ELSE cache

Subscribe(symbols) == [action |-> "subscribe", symbols |-> symbols]
Unsubscribe(symbols) == [action |-> "unsubscribe", symbols |-> symbols]

\* the sleep of ws_loop after a failure
SleepSeconds == 5

\* a mutant of ensure_ws_task: creates a task whether or not one is running
ensure_ws_task_always ==
    /\ startCalls < MaxStarts
    /\ startCalls' = startCalls + 1
    /\ _WS_TASK' = "running"
    /\ wsLive' = wsLive + 1
    /\ wsPc' = "connect"
    /\ UNCHANGED <<storeVars, evalVars, sigVars, _SUBS, PRICE_CACHE, fails, slept, want, to_del, sent>>

\* ensure_ws_task: creates the task when there is none or it is done.  The
\* function does not await, so it runs as one step of the event loop; ws_loop
\* catches every Exception and loops, so a task that runs is never done.
ensure_ws_task ==
    /\ startCalls < MaxStarts
    /\ startCalls' = startCalls + 1
    /\ IF _WS_TASK = "none" \/ _WS_TASK = "done"
       THEN /\ _WS_TASK' = "running"
            /\ wsLive' = wsLive + 1
            /\ wsPc' = "connect"
       ELSE UNCHANGED <<_WS_TASK, wsLive, wsPc>>
    /\ UNCHANGED <<storeVars, evalVars, sigVars, _SUBS, PRICE_CACHE, fails, slept, want, to_del, sent>>

\* websockets.connect succeeds: a new connection, on which nothing was sent yet
ws_connect ==
    /\ wsPc = "connect"
    /\ wsPc' = "refresh"
    /\ sent' = <<>>
    /\ fails' = 0
    /\ UNCHANGED <<storeVars, evalVars, sigVars, _SUBS, PRICE_CACHE, taskVars, slept, want, to_del>>

\* refresh_ws_subscriptions up to the end of its first if
ws_refresh ==
    /\ wsPc = "refresh"
    /\ LET w == all_symbols_in_positions(file)
           to_add == w \ _SUBS
       IN /\ want' = w
          /\ to_del' = _SUBS \ w
          /\ sent' = IF to_add # {} THEN Append(sent, Subscribe(to_add)) ELSE sent
          /\ _SUBS' = _SUBS \cup to_add
    /\ wsPc' = "refresh_del"
    /\ UNCHANGED <<storeVars, evalVars, sigVars, PRICE_CACHE, taskVars, fails, slept>>

\* a mutant of ws_refresh_del: unsubscribes and keeps the symbols in _SUBS
ws_refresh_del_keeps ==
    /\ wsPc = "refresh_del"
    /\ sent' = IF to_del # {} THEN Append(sent, Unsubscribe(to_del)) ELSE sent
    /\ wsPc' = "recv"
    /\ UNCHANGED <<storeVars, evalVars, sigVars, _SUBS, PRICE_CACHE, taskVars, fails, slept, want, to_del>>

\* the second if of refresh_ws_subscriptions; ws_loop then enters its receive loop
ws_refresh_del ==
    /\ wsPc = "refresh_del"
    /\ sent' = IF to_del # {} THEN Append(sent, Unsubscribe(to_del)) ELSE sent
    /\ _SUBS' = _SUBS \ to_del
    /\ wsPc' = "recv"
    /\ UNCHANGED <<storeVars, evalVars, sigVars, PRICE_CACHE, taskVars, fails, slept, want, to_del>>

\* one round of the receive loop
ws_recv ==
    /\ wsPc = "recv"
    /\ \E msg \in Msgs : PRICE_CACHE' = on_message(PRICE_CACHE, msg)
    /\ UNCHANGED <<storeVars, evalVars, sigVars, _SUBS, taskVars, fails, slept, wsPc, want, to_del, sent>>

\* connect, send or recv raises: the connection is gone and ws_loop sleeps
ws_error ==
    /\ wsPc \in {"connect", "refresh", "refresh_del", "recv"}
    /\ fails < MaxFails
    /\ fails' = fails + 1
    /\ slept' = SleepSeconds
    /\ wsPc' = "sleep"
    /\ UNCHANGED <<storeVars, evalVars, sigVars, _SUBS, PRICE_CACHE, taskVars, want, to_del, sent>>

\* asyncio.sleep returns and the outer loop connects again
ws_wake ==
    /\ wsPc = "sleep"
    /\ slept' = 0
    /\ wsPc' = "connect"
    /\ UNCHANGED <<storeVars, evalVars, sigVars, _SUBS, PRICE_CACHE, taskVars, fails, want, to_del, sent>>

WsUsers == {"u1"}

WsNext ==
    \/ ensure_ws_task
    \/ ws_connect
    \/ ws_refresh
    \/ ws_refresh_del
    \/ ws_recv
    \/ ws_error
    \/ ws_wake
    \/ call_add_pos(WsUsers, TickerInputs, FALSE)
    \/ call_rm_pos(WsUsers)

WsSpec == Init /\ [][WsNext]_vars

\* The event loop runs the streaming task whenever it can take a step of its
\* own; messages and errors come from the feed and are not owed to it.
WsLiveSpec ==
    WsSpec /\ WF_vars(ws_connect) /\ WF_vars(ws_refresh) /\ WF_vars(ws_refresh_del)
           /\ WF_vars(ws_wake)

-----------------------------------------------------------------------------
(* The decision label *)

\* credit and mid in cents; mid is None when no quote came.  hit is the first
\* component of the pair btc_hit returns, known says whether the second is a
\* number: (credit - mid) / credit * 100 >= 50.0, compared without dividing.
btc_hit(credit, mid) ==
    IF credit # 0 /\ mid.has /\ mid.v # 0
    THEN [hit |-> IF credit > 0 THEN 2 * (credit - mid.v) >= credit
                  ELSE 2 * (credit - mid.v) <= credit,
          known |-> TRUE]
    ELSE [hit |-> FALSE, known |-> FALSE]

\* dist_pct(u, strike) <= 4, compared without dividing; u = 0 raises
\* ZeroDivisionError, dist_pct returns nan, and nan <= 4 is false.
dist_pct_le4(u, strike) ==
    IF u = 0 THEN FALSE
    ELSE IF u > 0 THEN (strike - u) * 100 <= 4 * u
    ELSE (strike - u) * 100 >= 4 * u

_decision_label(hit, days, px, strike) ==
    IF hit THEN "BTC"
    ELSE IF days <= 7 THEN "Watch"
    ELSE IF px.has /\ strike # 0 /\ dist_pct_le4(px.v, strike) THEN "Roll-watch"
    ELSE "Hold"

\* build_positions_embed: hit comes from _fmt_line, which calls btc_hit
decide(a) == _decision_label(btc_hit(a.credit, a.mid).hit, a.days, a.px, a.strike)

\* a mid that is known is positive: get_call_mid averages positive quotes
DecideInputs ==
    [credit : {66, 0}, mid : {None, Some(7), Some(33), Some(34)},
     days : {-1, 7, 8}, px : {None, Some(2900), Some(3200), Some(0)}, strike : {3000}]

DecideInit ==
    /\ file = FileDoc(EmptyUsers)
    /\ StartUp
    /\ fnIn \in DecideInputs
    /\ fnOut = [done |-> FALSE, label |-> ""]

Decide ==
    /\ ~fnOut.done
    /\ fnOut' = [done |-> TRUE, label |-> decide(fnIn)]
    /\ UNCHANGED <<storeVars, sigVars, wsVars, fnIn>>

DecideSpec == DecideInit /\ [][Decide]_vars

-----------------------------------------------------------------------------
(* Symbol normalization *)

lower(s) ==
    [i \in 1..Len(s) |->
        CASE s[i] = "A" -> "a" [] s[i] = "B" -> "b" [] s[i] = "U" -> "u"
          [] s[i] = "S" -> "s" [] OTHER -> s[i]]

Underlyings == {<<"A">>, <<"A", "B">>}

\* the ways a user writes the underlying b: bare, with the market suffix, with
\* the suffix in front; in either case; with blanks around it
SpellingsOf(b) ==
    LET forms == {b, b \o <<".", "U", "S">>, <<"U", "S", ".">> \o b}
        cased == forms \cup {lower(x) : x \in forms}
    IN UNION {{x, <<" ">> \o x, x \o <<" ">>, <<" ">> \o x \o <<" ">>} : x \in cased}

NormInit ==
    /\ file = FileDoc(EmptyUsers)
    /\ StartUp
    /\ fnIn \in UNION {{[underlying |-> b, text |-> x] : x \in SpellingsOf(b)} : b \in Underlyings}
    /\ fnOut = <<>>

\* _norm_us applied to the spelling, then to its own result
Normalize ==
    /\ Len(fnOut) < 2
    /\ fnOut' = Append(fnOut, _norm_us(IF fnOut = <<>> THEN fnIn.text ELSE fnOut[Len(fnOut)]))
    /\ UNCHANGED <<storeVars, sigVars, wsVars, fnIn>>

NormSpec == NormInit /\ [][Normalize]_vars

-----------------------------------------------------------------------------
(* Properties of the store *)

\* The document a call of uid works on: the file as loaded, with uid's bucket
\* created, or taken over from a legacy document, by _ensure_user.
Loaded(uid) == _ensure_user(file, uid)

Coll(d, u) == IF u \in DOMAIN d THEN d[u] ELSE EmptyBucket

NoSharedId(seq) == \A i, j \in 1..Len(seq) : i # j => seq[i].id # seq[j].id

\* C1: no two open positions of a user share an id, the open covered calls and
\* the open cash-secured puts of the user taken together.
C1_OpenIdsUnique ==
    \A u \in DOMAIN _load(file) : NoSharedId(_load(file)[u].cc \o _load(file)[u].csp)

\* C2: every id an add returns to a user is strictly greater than every id an
\* add returned to that user before, also after positions were removed or closed.
C2_IdsNeverReused ==
    [][last'.op \in {"add_pos", "add_csp"} => \A uid \in UIDS, t \in StoreTickers, s \in Strikes, c \in Contracts,
          e \in ExpInputs, cr \in Cents, now \in Times :
          LET cc == add_pos(file, uid, t, s, c, e, cr, now)
              csp == add_csp(file, uid, t, s, c, e, cr, now)
          IN /\ (cc.ok /\ Complete(cc, "add_pos")) => cc.id > issued[uid]
             /\ (csp.ok /\ Complete(csp, "add_csp")) => csp.id > issued[uid]]_vars

\* the sequences of documents the handlers save when called on file f
SavesOfCalls(f) ==
    {add_pos(f, uid, t, s, c, e, cr, now).saves :
        uid \in UIDS, t \in StoreTickers, s \in Strikes, c \in Contracts,
        e \in ExpInputs, cr \in Cents, now \in Times}
    \cup {add_csp(f, uid, t, s, c, e, cr, now).saves :
        uid \in UIDS, t \in StoreTickers, s \in Strikes, c \in Contracts,
        e \in ExpInputs, cr \in Cents, now \in Times}
    \cup {rm_pos(f, uid, pid).saves : uid \in UIDS, pid \in PIDS}
    \cup {edit_pos(f, uid, pid, flds).saves : uid \in UIDS, pid \in PIDS, flds \in EditInputs}
    \cup {close_pos(f, uid, pid, btc, now).saves :
        uid \in UIDS, pid \in PIDS, btc \in BtcInputs, now \in Times}
    \cup {positions(f, uid).saves : uid \in UIDS}

\* the complete documents from before (as the call loaded it) and after a call on f
BeforeOrAfter(f) ==
    UNION {{FileDoc(sv[1]), FileDoc(sv[Len(sv)])} : sv \in SavesOfCalls(f)}

\* C3: whatever happens, a death of the process between any two steps of a save
\* included, DATA_FILE holds the complete document from before the running
\* call or the complete document after it, never a partly written one: the
\* document is written to the temporary file, which is renamed over DATA_FILE.
\* (The document from before is the one the call loaded: _ensure_user has
\* created the caller's bucket in it.)
C3_FileBeforeOrAfter ==
    [][file' = file \/ file' \in BeforeOrAfter(file)]_vars

\* the process died while the temporary file was partly written
C3_DiedMidWrite ==
    last.op = "died" /\ tmp.kind = "garbage" /\ file.kind = "users"

ValidEdit(flds) == flds.expiry.has => iso_exp_str(flds.expiry.v).ok

\* C6: edit of an id among the user's open positions returns true, and then
\* the persisted position with that id has every supplied field at its new
\* normalized value and every other field at its prior value.
C6_EditPersists ==
    [][last'.op = "edit_pos" => \A uid \in UIDS, pid \in PIDS, flds \in EditInputs :
          LET d == Loaded(uid)
              idx == IndexOfId(d[uid].cc, pid)
              run == edit_pos(file, uid, pid, flds)
          IN (idx # 0 /\ ValidEdit(flds) /\ Complete(run, "edit_pos")) =>
                /\ run.ok
                /\ _load(file')[uid].cc[idx] = ApplyEdit(d[uid].cc[idx], flds)]_vars

C10_UnknownIdIsNotFound ==
    [][\A uid \in UIDS, pid \in PIDS :
          LET d == Loaded(uid)
              Same == \A v \in UIDS \cup DOMAIN d : Coll(_load(file'), v) = Coll(d, v)
          IN pid \notin Ids(d[uid].cc) =>
                /\ last'.op = "rm_pos" =>
                      LET rm == rm_pos(file, uid, pid)
                      IN Complete(rm, "rm_pos") => ~rm.ok /\ ~rm.raised /\ Same
                /\ last'.op = "edit_pos" => \A flds \in EditInputs :
                      LET ed == edit_pos(file, uid, pid, flds)
                      IN Complete(ed, "edit_pos") =>
                            /\ ~ed.ok /\ ~ed.raised /\ Same
                            /\ _RESUB_REQUESTED' = _RESUB_REQUESTED
                /\ last'.op = "close_pos" => \A btc \in BtcInputs, now \in Times :
                      LET cl == close_pos(file, uid, pid, btc, now)
                      IN Complete(cl, "close_pos") =>
                            /\ ~cl.ok /\ ~cl.raised /\ Same
                            /\ _RESUB_REQUESTED' = _RESUB_REQUESTED]_vars

\* a call with an unknown id has returned not-found while positions are open
C10_NotFound ==
    /\ last.op \in {"rm_pos", "edit_pos", "close_pos"}
    /\ ~last.ok /\ ~last.raised
    /\ OpenCount(_load(file)) > 0

-----------------------------------------------------------------------------
(* Properties of the streaming client *)

\* C4: when a store mutation has raised the resubscription signal while the
\* client is connected and streaming, the client eventually, without dropping
\* the connection, reconciles: the subscribed set equals the wanted set.
C4_ResubIsServed ==
    (wsPc = "recv" /\ _RESUB_REQUESTED)
        ~> (wsPc # "recv" \/ _SUBS = all_symbols_in_positions(file))

\* C5: on every connection the client has sent the full wanted list as one
\* subscribe message, the first message of the connection, before it processes
\* stream messages.
C5_FullSubscribeOnConnect ==
    (wsPc = "recv" /\ want # {}) => (sent # <<>> /\ sent[1] = Subscribe(want))

-----------------------------------------------------------------------------
(* Properties of the pure functions *)

\* profit_pct = (entry_credit - mid) / entry_credit * 100 >= 50, for a credit > 0
ProfitAtLeast50(a) == a.mid.has /\ (a.credit - a.mid.v) * 100 >= 50 * a.credit

\* C7: the label is BuyToClose exactly when the option mid price is known,
\* profit_pct is at least 50 and days_to_expiry is at most 7; so profit 50 at 7
\* days is BuyToClose and 8 days is never BuyToClose.
C7_BuyToCloseIff ==
    (fnOut.done /\ fnIn.credit > 0) =>
        ((fnOut.label = "BTC") <=> (ProfitAtLeast50(fnIn) /\ fnIn.days <= 7))

\* C8: every spelling of an underlying normalizes to the same key, and
\* normalizing a key again gives the key.
C8_NormalizeCanonical ==
    /\ Len(fnOut) >= 1 =>
          \A y \in SpellingsOf(fnIn.underlying) : _norm_us(y) = fnOut[1]
    /\ Len(fnOut) = 2 => fnOut[2] = fnOut[1]

-----------------------------------------------------------------------------
(* Failed calls *)

\* C11: an add or edit whose date argument is malformed raises to its caller
\* and changes nothing: the persisted document after the failed call is the
\* document from before it (no position added or modified, no bucket created
\* or moved).  A missing or unreadable file counts as the empty document.
C11_FailedCallChangesNothing ==
    [][(last'.op \in {"add_pos", "add_csp", "edit_pos"} /\ last'.raised)
          => _load(file') = _load(file)]_vars

-----------------------------------------------------------------------------
(* Reading a store snapshot *)

\* positions of a snapshot: two covered calls, a put and a closed call, each on
\* an underlying of its own (a ticker is stored upper-cased, not stripped)
SnapA == NewPosition(1, <<"a">>, 3000, 2, iso_exp_str(GoodExp).s, 66, 10)
SnapB == NewPosition(2, <<" ", "b">>, 3000, 2, iso_exp_str(GoodExp).s, 66, 10)
SnapPut == NewPosition(1, <<"s">>, 3000, 2, iso_exp_str(GoodExp).s, 66, 10)
SnapClosed == Archived(NewPosition(3, <<"u">>, 3000, 2, iso_exp_str(GoodExp).s, 66, 10), 10, None)

SnapBuckets ==
    [cc : {<<>>, <<SnapA>>, <<SnapA, SnapB>>}, csp : {<<>>, <<SnapPut>>},
     closed : {<<>>, <<SnapClosed>>}]

Snapshots ==
    {FileOther(k) : k \in {"missing", "empty", "garbage", "nonobject"}}
    \cup {FileLegacy(b.cc, b.closed) : b \in SnapBuckets}
    \cup {FileDoc(d) : d \in UNION {[U -> SnapBuckets] : U \in SUBSET UIDS}}

NotRead == [op |-> "none"]

SnapInit ==
    /\ file \in Snapshots
    /\ StartUp
    /\ fnIn = <<>>
    /\ fnOut = NotRead

\* d = _load(), as send_public_eod, send_dm_eods and listcc call it
load_store ==
    /\ fnOut = NotRead
    /\ fnOut' = [op |-> "_load", raised |-> _load_raises(file), data |-> _load(file)]
    /\ UNCHANGED <<storeVars, sigVars, wsVars, fnIn>>

\* want = all_symbols_in_positions(), as refresh_ws_subscriptions calls it
want_symbols ==
    /\ fnOut = NotRead
    /\ fnOut' = [op |-> "all_symbols_in_positions", symbols |-> all_symbols_in_positions(file)]
    /\ UNCHANGED <<storeVars, sigVars, wsVars, fnIn>>

SnapNext == load_store \/ want_symbols

SnapSpec == SnapInit /\ [][SnapNext]_vars

\* C12: loading the store when its file is missing, truncated to zero bytes,
\* not valid JSON, or not a JSON object returns an empty store and does not
\* raise to the caller.
C12_UnreadableFileLoadsEmpty ==
    (fnOut.op = "_load" /\ file.kind \in {"missing", "empty", "garbage", "nonobject"})
        => (~fnOut.raised /\ fnOut.data = EmptyUsers)

\* a file truncated to zero bytes has been loaded
C12_LoadedTruncated == fnOut.op = "_load" /\ file.kind = "empty"

\* the normalized symbols of a sequence of positions
SymbolsOf(seq) == {_norm_us(seq[i].ticker) : i \in 1..Len(seq)}

\* C17: for every store snapshot the wanted symbol set is exactly the set of
\* normalized symbols of the open covered calls of all users; an open
\* cash-secured put or a closed position contributes no symbol.
C17_WantedIsOpenCalls ==
    fnOut.op = "all_symbols_in_positions" =>
        LET d == _load(file)
            calls == UNION {SymbolsOf(d[u].cc) : u \in DOMAIN d}
        IN /\ \A sym \in fnOut.symbols : \E u \in DOMAIN d : sym \in SymbolsOf(d[u].cc)
           /\ \A u \in DOMAIN d : SymbolsOf(d[u].cc) \subseteq fnOut.symbols
           /\ \A u \in DOMAIN d :
                 \A sym \in SymbolsOf(d[u].csp) \cup SymbolsOf(d[u].closed) :
                     sym \notin calls => sym \notin fnOut.symbols

\* the wanted set of a snapshot of two users with calls, a put and a closed call
C17_CallsAndPuts ==
    /\ fnOut.op = "all_symbols_in_positions"
    /\ Cardinality(fnOut.symbols) = 2
    /\ \E u, v \in DOMAIN _load(file) :
          /\ u # v
          /\ _load(file)[u].csp # <<>> /\ _load(file)[u].closed # <<>>
          /\ Len(_load(file)[u].cc) = 1 /\ Len(_load(file)[v].cc) = 2

-----------------------------------------------------------------------------
(* The resubscription signal *)

\* The streaming task runs whenever it can, and the feed keeps sending: a
\* client that waits in recv gets a message.
WsBusySpec == WsLiveSpec /\ WF_vars(ws_recv)

\* C13: when the resubscription signal was raised two or more times before the
\* streaming client consumed it, the client, while it stays connected, makes
\* a reconciliation pass for all of them, after which the subscribed set is the
\* wanted set, as after a single raise.
C13_RaisedTwiceServedOnce ==
    (wsPc = "recv" /\ resubs >= 2)
        ~> (wsPc # "recv" \/ _SUBS = all_symbols_in_positions(file))

-----------------------------------------------------------------------------
(* The streaming task *)

\* C14: however often and whenever the start of the streaming task is
\* requested, at most one stream-reader task is alive at any time, and a new
\* one is created only when none is alive.
C14_OneStreamReader ==
    [][wsLive' <= 1 /\ (wsLive' > wsLive => wsLive = 0)]_vars

\* the start was requested again while the task was reading the stream
C14_StartedTwice == startCalls = 2 /\ wsLive = 1 /\ wsPc = "recv"

\* the delay after the n-th failure in a row: 1, doubled each time, at most 30
RECURSIVE BackoffDelay(_)
BackoffDelay(n) ==
    IF n <= 1 THEN 1
    ELSE IF 2 * BackoffDelay(n - 1) > 30 THEN 30 ELSE 2 * BackoffDelay(n - 1)

\* C15: after an error while connecting or streaming the client waits before
\* it connects again, 1 time-unit after the first failure, twice the previous
\* delay after each further failure in a row, and never more than 30.
C15_BackoffDoubles ==
    wsPc = "sleep" => slept = BackoffDelay(fails)

-----------------------------------------------------------------------------
(* The decision label, continued *)

\* (strike - underlying_price) / underlying_price * 100 <= 4, for a price > 0
SignedDistanceAtMost4(a) == a.px.has /\ (a.strike - a.px.v) * 100 <= 4 * a.px.v

\* C16: for every input, a negative days_to_expiry included, the label is one
\* of BuyToClose, RollWatch and Hold; when it is not BuyToClose it is RollWatch
\* exactly when the underlying price is known and the signed distance to the
\* strike is at most 4 percent, and Hold otherwise.  (A known price of 0, for
\* which the distance is undefined, is left open.)
C16_RollWatchOrHold ==
    fnOut.done =>
        /\ fnOut.label \in {"BTC", "Roll-watch", "Hold"}
        /\ (fnOut.label # "BTC" /\ fnIn.px # Some(0)) =>
              fnOut.label = (IF SignedDistanceAtMost4(fnIn) THEN "Roll-watch" ELSE "Hold")

-----------------------------------------------------------------------------
(* Remove and close *)

\* C18: remove of an id among the user's open positions returns true and
\* deletes exactly that position without archiving it: the user's closed
\* collection, the user's other open positions and every other user's
\* collections are as before.
C18_RemoveDeletesOne ==
    [][last'.op = "rm_pos" => \A uid \in UIDS, pid \in PIDS :
          LET d == Loaded(uid)
              b == d[uid]
              idx == IndexOfId(b.cc, pid)
              run == rm_pos(file, uid, pid)
          IN (idx # 0 /\ Complete(run, "rm_pos")) =>
                LET after == _load(file')
                IN /\ run.ok /\ ~run.raised
                   /\ file'.kind = "users"
                   /\ after[uid].cc = RemoveAt(b.cc, idx)
                   /\ after[uid].csp = b.csp
                   /\ after[uid].closed = b.closed
                   /\ \A v \in DOMAIN d \ {uid} : Coll(after, v) = d[v]]_vars

\* a remove has deleted one position and the store still holds an open one
C18_Removed ==
    /\ last.op = "rm_pos" /\ last.ok
    /\ OpenCount(_load(file)) > 0

\* v hundredths of a percent is (credit - price) / credit * 100 rounded to two
\* decimals: no number of hundredths is nearer to the quotient
RoundedProfit(v, credit, price) ==
    LET err == v * credit - (credit - price) * 10000
    IN 2 * (IF err < 0 THEN -err ELSE err) <= credit

\* C19: the profit percentage stored on a closed position is
\* (entry_credit - close_price) / entry_credit * 100 rounded to two decimals
\* when a close price was supplied (0.66 closed at 0.07 gives 89.39), and null
\* when none was supplied.
C19_StoredProfit ==
    \A u \in DOMAIN _load(file) :
        \A i \in 1..Len(_load(file)[u].closed) :
            LET c == _load(file)[u].closed[i]
            IN IF c.btc_price.has
               THEN c.entry_credit > 0 =>
                       /\ c.pnl_pct.has
                       /\ RoundedProfit(c.pnl_pct.v, c.entry_credit, c.btc_price.v)
                       /\ (c.entry_credit = 66 /\ c.btc_price.v = 7) => c.pnl_pct.v = 8939
               ELSE c.pnl_pct = None

\* a position with entry credit 0.66 was closed at 0.07
C19_ClosedAtSeven ==
    \E u \in DOMAIN _load(file) :
        \E i \in 1..Len(_load(file)[u].closed) :
            LET c == _load(file)[u].closed[i]
            IN c.entry_credit = 66 /\ c.btc_price = Some(7) /\ c.pnl_pct.has

-----------------------------------------------------------------------------
(* Reports and quote fetches *)

\* what the intraday request gives: no usable answer (an error, or an empty
\* list), or the last close of the list
Quotes == {None, Some(100)}

\* get_intraday_last(cli, sym): [cache |-> PRICE_CACHE after the call, px |-> result]
get_intraday_last(cache, sym, resp) ==
    IF sym \in DOMAIN cache THEN [cache |-> cache, px |-> Some(cache[sym])]
    ELSE IF resp.has
    THEN [cache |-> [k \in DOMAIN cache \cup {sym} |-> IF k = sym THEN resp.v ELSE cache[k]],
          px |-> resp]
    ELSE [cache |-> cache, px |-> None]

\* the loop of build_positions_embed over ps from position i on: the cache is
\* asked for the normalized symbol, and on a miss the quote is fetched for the
\* ticker as stored; resp[i] is what the intraday request for ps[i] gives
RECURSIVE quote_positions(_, _, _, _)
quote_positions(cache, ps, resp, i) ==
    IF i > Len(ps) THEN cache
    ELSE IF _norm_us(ps[i].ticker) \in DOMAIN cache
    THEN quote_positions(cache, ps, resp, i + 1)
    ELSE quote_positions(get_intraday_last(cache, ps[i].ticker, resp[i]).cache, ps, resp, i + 1)

\* build_positions_embed(uid, now), as /position update and the end-of-day
\* reports call it
call_build_positions_embed(U) ==
    \E uid \in U, resp \in [1..MaxPositions -> Quotes] :
        LET run == positions(file, uid)
            ps == _get_user_bucket(file, uid)[uid].cc
            r == SaveAll(file, tmp, run.saves)
        IN /\ Len(ps) <= MaxPositions
           /\ file' = r.file
           /\ tmp' = r.tmp
           /\ last' = [op |-> "build_positions_embed", ok |-> TRUE, raised |-> FALSE]
           /\ PRICE_CACHE' = quote_positions(PRICE_CACHE, ps, resp, 1)
           /\ UNCHANGED <<issued, sigVars, evalVars, _SUBS, taskVars, fails, slept, wsPc,
                          want, to_del, sent>>

ReportNext ==
    \/ WsNext
    \/ call_build_positions_embed(WsUsers)

ReportSpec == Init /\ [][ReportNext]_vars

\* C20: the price cache and the subscribed set are written only by the
\* streaming task: a step that adds, changes or removes a price-cache entry or
\* a subscribed symbol is a step of the stream reader, never one of a command
\* handler, a report builder or a quote fetch.
C20_OnlyStreamWrites ==
    [][(PRICE_CACHE' # PRICE_CACHE \/ _SUBS' # _SUBS)
          => (ws_recv \/ ws_refresh \/ ws_refresh_del)]_vars

-----------------------------------------------------------------------------
(* Listing closed positions *)

\* Python's seq[start:] for an integer start of either sign
SliceFrom(seq, start) ==
    LET from == IF start < 0
                THEN (IF Len(seq) + start < 0 THEN 0 ELSE Len(seq) + start)
                ELSE (IF start > Len(seq) THEN Len(seq) ELSE start)
    IN SubSeq(seq, from + 1, Len(seq))

\* user_closed(uid, n): the document it saves and the rows it returns
user_closed(f, uid, n) ==
    LET d == _get_user_bucket(f, uid)
    IN [saves |-> <<d>>, rows |-> SliceFrom(d[uid].closed, -n)]

ListClosedA == Archived(NewPosition(1, <<"a">>, 3000, 2, iso_exp_str(GoodExp).s, 66, 10), 10, Some(7))
ListClosedB == Archived(NewPosition(2, <<"b">>, 3000, 2, iso_exp_str(GoodExp).s, 66, 10), 10, None)

ListBuckets ==
    [cc : {<<>>}, csp : {<<>>},
     closed : {<<>>, <<ListClosedA>>, <<ListClosedA, ListClosedB>>}]

ListInit ==
    /\ file \in {FileDoc(d) : d \in UNION {[U -> ListBuckets] : U \in SUBSET UIDS}}
    /\ StartUp
    /\ fnIn = <<>>
    /\ fnOut = NotRead

call_user_closed ==
    \E uid \in UIDS, n \in 0..MaxN :
        LET run == user_closed(file, uid, n)
            r == SaveAll(file, tmp, run.saves)
        IN /\ fnOut = NotRead
           /\ file' = r.file
           /\ tmp' = r.tmp
           /\ last' = [op |-> "user_closed", ok |-> TRUE, raised |-> FALSE]
           /\ fnOut' = [op |-> "user_closed", uid |-> uid, n |-> n, rows |-> run.rows]
           /\ UNCHANGED <<issued, sigVars, wsVars, fnIn>>

ListSpec == ListInit /\ [][call_user_closed]_vars

\* C21: list_closed(user, N) returns the user's closed positions in append
\* order, most recent last, truncated to the last N: for every N >= 0 the
\* result is the last min(N, number of closed positions) entries.
C21_LastNClosed ==
    fnOut.op = "user_closed" =>
        LET cl == _load(file)[fnOut.uid].closed
            k == IF fnOut.n < Len(cl) THEN fnOut.n ELSE Len(cl)
        IN fnOut.rows = SubSeq(cl, Len(cl) - k + 1, Len(cl))

-----------------------------------------------------------------------------
(* The end-of-day dispatch *)

\* the orders in which a loop can meet the keys of a dict
Orders(S) ==
    {o \in [1..Cardinality(S) -> S] : \A i, j \in 1..Cardinality(S) : i # j => o[i] # o[j]}

\* One pass over the users of the loaded document, from the i-th on.  Failing
\* are the users for whom building or delivering the report raises (the first
\* await of build_positions_embed, bot.fetch_user(int(uid)), raises before
\* anything is read); catch says whether the loop body sits in try/except.
\* st is [file, tmp, cache, attempted, raised].
RECURSIVE eod_pass(_, _, _, _, _, _)
eod_pass(order, i, st, Failing, resp, catch) ==
    IF i > Len(order) \/ st.raised THEN st
    ELSE LET uid == order[i]
             seen == [st EXCEPT !.attempted = @ \cup {uid}]
         IN IF uid \in Failing
            THEN eod_pass(order, i + 1, [seen EXCEPT !.raised = ~catch], Failing, resp, catch)
            ELSE LET run == positions(st.file, uid)
                     r == SaveAll(st.file, st.tmp, run.saves)
                     ps == _get_user_bucket(st.file, uid)[uid].cc
                 IN eod_pass(order, i + 1,
                             [seen EXCEPT !.file = r.file, !.tmp = r.tmp,
                                          !.cache = quote_positions(@, ps, resp, 1)],
                             Failing, resp, catch)

\* send_public_eod: the loop body is not guarded
send_public_eod(st, order, Failing, resp) ==
    eod_pass(order, 1, [st EXCEPT !.attempted = {}], Failing, resp, FALSE)

\* send_dm_eods: the loop body is in try/except
send_dm_eods(st, order, Failing, resp) ==
    eod_pass(order, 1, [st EXCEPT !.attempted = {}], Failing, resp, TRUE)

EodInit ==
    /\ file \in InitFiles
    /\ StartUp
    /\ fnIn = <<>>
    /\ fnOut = NotRead

\* eod_job (and /eod update, !run_eod): send_public_eod, then send_dm_eods.
\* int("legacy") raises for the bucket of a legacy document.
call_eod_job ==
    LET users == DOMAIN _load(file)
    IN \E order \in Orders(users), FailPublic \in SUBSET users, FailDm \in SUBSET users,
          resp \in [1..MaxPositions -> Quotes] :
          LET st0 == [file |-> file, tmp |-> tmp, cache |-> PRICE_CACHE,
                      attempted |-> {}, raised |-> FALSE]
              pub == send_public_eod(st0, order, FailPublic, resp)
              dm == IF pub.raised THEN [pub EXCEPT !.attempted = {}]
                    ELSE send_dm_eods(pub, order, FailDm, resp)
          IN /\ users \cap {"legacy"} \subseteq FailPublic \cap FailDm
             /\ file' = dm.file
             /\ tmp' = dm.tmp
             /\ PRICE_CACHE' = dm.cache
             /\ last' = [op |-> "eod_job", ok |-> ~dm.raised, raised |-> dm.raised]
             /\ fnOut' = [op |-> "eod_job", users |-> users, public |-> pub.attempted,
                          dm |-> dm.attempted, raised |-> dm.raised]
             /\ UNCHANGED <<issued, sigVars, fnIn, _SUBS, taskVars, fails, slept, wsPc,
                            want, to_del, sent>>

EodNext ==
    \/ call_add_pos(UIDS, StoreTickers, FALSE)
    \/ call_eod_job

EodSpec == EodInit /\ [][EodNext]_vars

\* C22: in an end-of-day dispatch over all users of the store a failure while
\* building or delivering one user's report is caught and that user is
\* skipped: the batch is not aborted, and the report of every user is
\* attempted, in the public pass and in the direct-message pass.
C22_EveryReportAttempted ==
    fnOut.op = "eod_job" =>
        (~fnOut.raised /\ fnOut.public = fnOut.users /\ fnOut.dm = fnOut.users)

-----------------------------------------------------------------------------
(* Subscriptions *)

\* the symbols subscribed on a connection on which msgs were sent: those of a
\* subscribe that no later unsubscribe names
RECURSIVE SubscribedBy(_)
SubscribedBy(msgs) ==
    IF msgs = <<>> THEN {}
    ELSE LET m == msgs[Len(msgs)]
             before == SubscribedBy(SubSeq(msgs, 1, Len(msgs) - 1))
         IN IF m.action = "subscribe" THEN before \cup m.symbols ELSE before \ m.symbols

\* C23: whenever the client is connected and not in the middle of a
\* reconciliation pass, the tracked subscribed set is the set of symbols
\* actually subscribed on the current connection, after a reconnect too.
C23_TrackedIsSubscribed ==
    wsPc = "recv" => _SUBS = SubscribedBy(sent)

\* the messages a step has sent
NewlySent == SubSeq(sent', Len(sent) + 1, Len(sent'))

\* C24: a reconciliation pass that completes without error sends subscribe
\* for exactly wanted minus subscribed and unsubscribe for exactly subscribed
\* minus wanted, and leaves the tracked subscribed set equal to the wanted set
\* computed at the start of the pass; with no open covered calls the wanted
\* set is empty and every symbol subscribed before is unsubscribed.
C24_PassSendsDifferences ==
    [][/\ (wsPc = "refresh" /\ wsPc' = "refresh_del") =>
             LET wanted == UNION {SymbolsOf(_load(file)[u].cc) : u \in DOMAIN _load(file)}
             IN /\ want' = wanted
                /\ NewlySent = IF wanted \ _SUBS = {} THEN <<>>
                               ELSE <<Subscribe(wanted \ _SUBS)>>
                /\ to_del' = _SUBS \ wanted
                /\ _SUBS' = _SUBS \cup wanted
       /\ (wsPc = "refresh_del" /\ wsPc' = "recv") =>
             /\ NewlySent = IF to_del = {} THEN <<>> ELSE <<Unsubscribe(to_del)>>
             /\ _SUBS' = want
             /\ want = {} => _SUBS' = {}]_vars

\* a pass with no open covered call has unsubscribed what was subscribed
C24_FullUnsubscribe ==
    /\ wsPc = "recv" /\ want = {} /\ _SUBS = {}
    /\ Len(sent) = 1 /\ sent[1].action = "unsubscribe" /\ sent[1].symbols # {}

-----------------------------------------------------------------------------
(* Stream messages *)

AUS == <<"A", ".", "U", "S">>
BUS == <<"B", ".", "U", "S">>

\* messages of the feed: trades and closes of two symbols, a price of 0, a
\* price that is text, a message without symbol, one without price, and text
\* that is no JSON
RecvMsgs ==
    { Msg(JStr(AUS), JNull, JNull, JNum(101), JNull),
      Msg(JStr(AUS), JNull, JNull, JNum(102), JNull),
      Msg(JNull, JStr(BUS), JNull, JNull, JNum(103)),
      Msg(JStr(AUS), JNull, JNull, JNum(0), JNull),
      Msg(JStr(AUS), JNull, JNull, JStr(<<"1">>), JNull),
      Msg(JNull, JNull, JNull, JNum(101), JNull),
      Msg(JStr(AUS), JNull, JNull, JNull, JNull),
      BadMsg }

\* the exception the body of the inner try of ws_loop raises, "none" when it
\* runs to its end
MsgError(msg) == IF msg.parsable THEN "none" ELSE "JSONDecodeError"

\* whether handling msg raises out of the receive loop (and ends the connection)
recv_raises(msg) == MsgError(msg) # "none" /\ MsgError(msg) \notin ExceptionClasses

\* one round of the receive loop, the message and the cache before it recorded
ws_recv_msg ==
    /\ wsPc = "recv"
    /\ \E msg \in RecvMsgs :
          /\ PRICE_CACHE' = on_message(PRICE_CACHE, msg)
          /\ wsPc' = IF recv_raises(msg) THEN "sleep" ELSE "recv"
          /\ slept' = IF recv_raises(msg) THEN SleepSeconds ELSE slept
          /\ fnOut' = [op |-> "recv", msg |-> msg, before |-> PRICE_CACHE]
    /\ UNCHANGED <<storeVars, sigVars, fnIn, _SUBS, taskVars, fails, want, to_del, sent>>

RecvNext ==
    \/ ensure_ws_task
    \/ ws_connect
    \/ ws_refresh
    \/ ws_refresh_del
    \/ ws_recv_msg
    \/ ws_error
    \/ ws_wake

RecvSpec == EodInit /\ [][RecvNext]_vars

\* the symbol a message carries: the first of its fields s, code, symbol that
\* holds non-empty text
SymbolIn(msg) ==
    IF msg.s.t = "str" /\ msg.s.s # <<>> THEN Some(msg.s.s)
    ELSE IF msg.code.t = "str" /\ msg.code.s # <<>> THEN Some(msg.code.s)
    ELSE IF msg.symbol.t = "str" /\ msg.symbol.s # <<>> THEN Some(msg.symbol.s)
    ELSE None

\* the numeric price a message carries: its field p, else its field close
PriceIn(msg) ==
    IF msg.p.t = "num" THEN Some(msg.p.n)
    ELSE IF msg.p.t = "null" /\ msg.close.t = "num" THEN Some(msg.close.n)
    ELSE None

\* C25: while streaming, a message that carries a symbol and a numeric price
\* sets the price-cache entry of exactly that symbol to that price and changes
\* no other entry; a message that is unparsable or lacks a symbol or a numeric
\* price changes no entry; in neither case is the connection dropped.
C25_MessageSetsOneEntry ==
    [][fnOut'.op = "recv" /\ fnOut' # fnOut =>
          LET msg == fnOut'.msg
              sym == SymbolIn(msg)
              px == PriceIn(msg)
          IN /\ wsPc' = "recv"
             /\ IF msg.parsable /\ sym.has /\ px.has
                THEN /\ DOMAIN PRICE_CACHE' = DOMAIN PRICE_CACHE \cup {sym.v}
                     /\ PRICE_CACHE'[sym.v] = px.v
                     /\ \A k \in DOMAIN PRICE_CACHE \ {sym.v} : PRICE_CACHE'[k] = PRICE_CACHE[k]
                ELSE PRICE_CACHE' = PRICE_CACHE]_vars

-----------------------------------------------------------------------------
(* The store, started from a document that holds positions already *)

MaxArchive == 2

\* close_pos, not taken once the caller's closed list holds MaxArchive entries
call_close_pos_archive(U) ==
    /\ \E uid \in U, pid \in PIDS, btc \in BtcInputs, now \in Times :
          /\ Len(_ensure_user(file, uid)[uid].closed) < MaxArchive
          /\ Complete(close_pos(file, uid, pid, btc, now), "close_pos")
    /\ UNCHANGED issued

BookNext ==
    \/ call_add_pos(UIDS, StoreTickers, FALSE)
    \/ call_add_csp(UIDS, StoreTickers, FALSE)
    \/ call_rm_pos(UIDS)
    \/ call_edit_pos(UIDS)
    \/ call_close_pos_archive(UIDS)
    \/ call_positions(UIDS)

\* a user with a covered call, a put of the same id and a closed call
BookBucket == [cc |-> <<SnapA>>, csp |-> <<SnapPut>>, closed |-> <<SnapClosed>>]

\* that user alone, and that user next to one with two covered calls
BookFiles ==
    { FileDoc([u \in {"u1"} |-> BookBucket]),
      FileDoc([u \in UIDS |-> IF u = "u1" THEN BookBucket
                               ELSE [cc |-> <<SnapA, SnapB>>, csp |-> <<>>, closed |-> <<>>]]) }

BookInit ==
    /\ file \in BookFiles
    /\ StartUp
    /\ fnIn = <<>>
    /\ fnOut = <<>>

BookSpec == BookInit /\ [][BookNext]_vars

\* whether s is the beginning of t
BeginsWith(t, s) == Len(s) <= Len(t) /\ SubSeq(t, 1, Len(s)) = s

\* the closed collection of user u in the persisted document
ClosedOf(f, u) == Coll(_load(f), u).closed

\* C26: a user's closed collection is append-only: over every operation (add,
\* remove, edit, close, read accessor) the closed collection before it is a
\* prefix of the closed collection after it, so no closed entry is ever
\* modified or removed.
C26_ClosedAppendOnly ==
    [][\A u \in UIDS : BeginsWith(ClosedOf(file', u), ClosedOf(file, u))]_vars

\* a close has appended to a closed collection that held an entry already
C26_SecondClose ==
    /\ last.op = "close_pos" /\ last.ok
    /\ \E u \in UIDS : Len(ClosedOf(file, u)) = 2 /\ ClosedOf(file, u)[1] = SnapClosed

-----------------------------------------------------------------------------
(* The signal after a mutation *)

\* C27: every successful add (covered call or cash-secured put), remove, edit
\* and close raises the resubscription signal, and raises it only after the
\* mutated document has been persisted: when the call returns, the signal is
\* up and DATA_FILE holds the store with the mutation in it (the added id, the
\* removed or closed id gone, the edited fields at their new values).
C27_SignalAfterPersist ==
    [][last'.op \in {"add_pos", "add_csp", "rm_pos", "edit_pos", "close_pos"} /\ last'.ok =>
          /\ _RESUB_REQUESTED'
          /\ \A uid \in UIDS :
                LET b == Loaded(uid)[uid]
                    b2 == Coll(_load(file'), uid)
                IN /\ \A t \in StoreTickers, s \in Strikes, c \in Contracts,
                         e \in ExpInputs, cr \in Cents, now \in Times :
                         LET cc == add_pos(file, uid, t, s, c, e, cr, now)
                             csp == add_csp(file, uid, t, s, c, e, cr, now)
                         IN /\ (cc.ok /\ Complete(cc, "add_pos")) =>
                                  Len(b2.cc) = Len(b.cc) + 1 /\ b2.cc[Len(b2.cc)].id = cc.id
                            /\ (csp.ok /\ Complete(csp, "add_csp")) =>
                                  Len(b2.csp) = Len(b.csp) + 1 /\ b2.csp[Len(b2.csp)].id = csp.id
                   /\ \A pid \in PIDS :
                         LET rm == rm_pos(file, uid, pid)
                             idx == IndexOfId(b.cc, pid)
                         IN /\ (rm.ok /\ Complete(rm, "rm_pos")) => pid \notin Ids(b2.cc)
                            /\ \A btc \in BtcInputs, now \in Times :
                                  LET cl == close_pos(file, uid, pid, btc, now)
                                  IN (cl.ok /\ Complete(cl, "close_pos")) =>
                                        pid \notin Ids(b2.cc) /\ Len(b2.closed) = Len(b.closed) + 1
                            /\ \A flds \in EditInputs :
                                  LET ed == edit_pos(file, uid, pid, flds)
                                  IN (ed.ok /\ Complete(ed, "edit_pos")) =>
                                        b2.cc[idx] = ApplyEdit(b.cc[idx], flds)]_vars

-----------------------------------------------------------------------------
(* Migration of a legacy document *)

\* a document of an older version: two covered calls and a closed one
LegacyBook == FileLegacy(<<SnapA, SnapB>>, <<SnapClosed>>)

LegacyInit ==
    /\ file = LegacyBook
    /\ StartUp
    /\ fnIn = <<>>
    /\ fnOut = <<>>

LegacySpec == LegacyInit /\ [][BookNext]_vars

Range(seq) == {seq[i] : i \in 1..Len(seq)}

\* the users of document f that hold the legacy entry p, open or closed
HoldersOf(f, p) ==
    {u \in DOMAIN _load(f) : p \in Range(_load(f)[u].cc) \cup Range(_load(f)[u].closed)}

\* C28: a legacy single-bucket document (top-level open and closed lists, no
\* users mapping) is migrated, content and order preserved, into exactly one
\* user bucket, that of the first user id that references the store; no later
\* operation loses a migrated entry or puts it into another user's bucket.
C28_LegacyMigratedOnce ==
    [][/\ (file.kind = "legacy" /\ file' # file) =>
            /\ file'.kind = "users"
            /\ \E u \in UIDS :
                  /\ DOMAIN _load(file') = {u}
                  /\ BeginsWith(_load(file')[u].closed, file.closed)
                  /\ (last'.op \in {"positions", "add_csp"} => _load(file')[u].cc = file.cc)
                  /\ (last'.op = "add_pos" => BeginsWith(_load(file')[u].cc, file.cc))
       /\ (file'.kind = "users") =>
            /\ "legacy" \notin DOMAIN _load(file')
            /\ Cardinality(HoldersOf(file', SnapClosed)) = 1
            /\ HoldersOf(file', SnapB) \subseteq HoldersOf(file', SnapClosed)
       /\ (file.kind = "users" /\ last'.op \in {"positions", "add_pos", "add_csp"}) =>
            HoldersOf(file', SnapB) = HoldersOf(file, SnapB)]_vars

\* the legacy entries are with one user, and the other user holds a position
C28_MigratedNextToOther ==
    /\ file.kind = "users"
    /\ \E u, v \in DOMAIN _load(file) :
          /\ u # v
          /\ HoldersOf(file, SnapB) = {u}
          /\ _load(file)[u].closed[1] = SnapClosed
          /\ Len(_load(file)[v].cc) = 1

-----------------------------------------------------------------------------
(* One user's calls and the other users' buckets *)

\* the users of the persisted document other than uid
OtherUsers(f, uid) == DOMAIN _load(f) \ {uid, "legacy"}

\* over the step, every user of the document other than uid keeps its bucket
OthersKept(uid) ==
    \A v \in OtherUsers(file, uid) :
        v \in DOMAIN _load(file') /\ _load(file')[v] = _load(file)[v]

\* C29: store operations are isolated per user: an add, remove, edit, close or
\* read accessor invoked for one user id leaves the open covered calls, the
\* open cash-secured puts and the closed collection of every other user id
\* already present in the store unchanged.
C29_OtherUsersUntouched ==
    [][last'.op \in {"add_pos", "add_csp", "rm_pos", "edit_pos", "close_pos", "positions"} =>
          \A uid \in UIDS :
             /\ \A t \in StoreTickers, s \in Strikes, c \in Contracts,
                   e \in ExpInputs, cr \in Cents, now \in Times :
                   /\ Complete(add_pos(file, uid, t, s, c, e, cr, now), "add_pos") => OthersKept(uid)
                   /\ Complete(add_csp(file, uid, t, s, c, e, cr, now), "add_csp") => OthersKept(uid)
             /\ \A pid \in PIDS :
                   /\ Complete(rm_pos(file, uid, pid), "rm_pos") => OthersKept(uid)
                   /\ \A flds \in EditInputs :
                         Complete(edit_pos(file, uid, pid, flds), "edit_pos") => OthersKept(uid)
                   /\ \A btc \in BtcInputs, now \in Times :
                         Complete(close_pos(file, uid, pid, btc, now), "close_pos") => OthersKept(uid)
             /\ Complete(positions(file, uid), "positions") => OthersKept(uid)]_vars

\* a user has closed a position next to a user who holds a call, a put and a
\* closed call
C29_ClosedNextToOther ==
    /\ last.op = "close_pos" /\ last.ok
    /\ \E u, v \in DOMAIN _load(file) :
          /\ u # v
          /\ _load(file)[u] = BookBucket
          /\ Len(_load(file)[v].closed) = 1

-----------------------------------------------------------------------------
(* Remove, edit and close, and the puts *)

\* the open cash-secured puts of user u in the persisted document
PutsOf(f, u) == Coll(_load(f), u).csp

\* C30: remove, edit and close act only on the open covered calls: they never
\* change, remove or archive an open cash-secured put, also when the id passed
\* is the id of an open cash-secured put of that user.
C30_PutsUntouched ==
    [][last'.op \in {"rm_pos", "edit_pos", "close_pos"} =>
          \A u \in UIDS :
             /\ PutsOf(file', u) = PutsOf(file, u)
             /\ \A i \in 1..Len(ClosedOf(file', u)) :
                   i > Len(ClosedOf(file, u)) =>
                      PosFields(ClosedOf(file', u)[i]) \in Range(Coll(_load(file), u).cc)]_vars

\* remove has succeeded with the id that the user's covered call and put shared
C30_RemovedBesidePut ==
    /\ last.op = "rm_pos" /\ last.ok
    /\ \E u \in UIDS :
          /\ PutsOf(file, u) = <<SnapPut>>
          /\ Coll(_load(file), u).cc = <<>>
          /\ ClosedOf(file, u) = <<SnapClosed>>

====
